---- MODULE Spec2Model ----
(***************************************************************************)
(* Model of two programs of the repository:                                *)
(*   - the Slides snippets' test helper (slides/snippets/test/helpers.js): *)
(*     one Helpers instance, the promises its methods return and the       *)
(*     remote calls they issue;                                            *)
(*   - the Chat sample chat/client-libraries/cloud/                        *)
(*     update-membership-user-cred.js: independent runs of main().         *)
(* A remote service is an environment that answers each pending call once, *)
(* with an error or with a reply.                                          *)
(***************************************************************************)
EXTENDS Integers, Sequences, FiniteSets, TLC

\* Bounds of the model.
MaxOps == 3   \* promise-returning Helpers calls made on the instance
MaxNum == 2   \* largest num passed to addSlides
MaxRuns == 3  \* runs of the chat sample

\* Values the environment draws from.
FileIds == {"f1", "f2"}            \* ids the services hand out
Errors == {"e1", "e2"}             \* errors a remote call can fail with
Layouts == {"BLANK", "TITLE"}      \* predefinedLayout arguments
ArgIds == {"id_1"}                 \* presentation / spreadsheet id arguments
PageIds == {"page_1"}              \* page object id arguments
ChartIds == {7}                    \* sheetChartId arguments
Responses == {"membership_1", "membership_2"}  \* updateMembership responses

undefined == "undefined"

VARIABLES
  filesToDelete,  \* this.filesToDelete
  promises,       \* the promises returned by Helpers methods, in call order
  calls,          \* the remote calls issued by Helpers methods, in issue order
  resolvedIds,    \* history: values of the creation promises resolved since
                  \* construction or the last reset(), in resolution order
  chatPc,         \* per run: where main() of the chat sample stands
  chatCalls,      \* per run: the asynchronous calls main() has made, in order
  consoleLog,     \* per run: arguments of console.log, in order
  consoleError    \* per run: arguments of console.error, in order

helperVars == <<filesToDelete, promises, calls, resolvedIds>>
chatVars == <<chatPc, chatCalls, consoleLog, consoleError>>
vars == <<filesToDelete, promises, calls, resolvedIds,
          chatPc, chatCalls, consoleLog, consoleError>>

----------------------------------------------------------------------------
\* Promises and remote calls.

\* new Promise(...): a pending promise of a Helpers method.
NewPromise(method, args) ==
  [method |-> method, args |-> args, state |-> "pending", value |-> undefined]

\* A remote call just issued on behalf of promise p.
RemoteCall(p, api, request) ==
  [op |-> p, api |-> api, request |-> request,
   status |-> "pending", reply |-> undefined]

\* resolve(v) on promise p; a settled promise stays as it is.
resolve(p, v) ==
  IF promises[p].state = "pending"
  THEN [promises EXCEPT ![p].state = "resolved", ![p].value = v]
  ELSE promises

\* Faulty variant of reject: the error is replaced by a generic one.
rejectGeneric(p, e) ==
  IF promises[p].state = "pending"
  THEN [promises EXCEPT ![p].state = "rejected", ![p].value = "Error"]
  ELSE promises

\* reject(e) on promise p; a settled promise stays as it is.
reject(p, e) ==
  IF promises[p].state = "pending"
  THEN [promises EXCEPT ![p].state = "rejected", ![p].value = e]
  ELSE promises

\* The service answers call c.
Answer(c, status, reply) ==
  [calls EXCEPT ![c].status = status, ![c].reply = reply]

Pending(api) ==
  {c \in DOMAIN calls : calls[c].api = api /\ calls[c].status = "pending"}

\* A method that issues one remote call and returns a promise for it.
Invoke(method, args, api, request) ==
  /\ Len(promises) < MaxOps
  /\ promises' = Append(promises, NewPromise(method, args))
  /\ calls' = Append(calls, RemoteCall(Len(promises) + 1, api, request))

----------------------------------------------------------------------------
\* Helpers: the identifier list.

\* Faulty variant of reset: it also withdraws the deletes still in flight.
resetCancelling ==
  /\ filesToDelete' = <<>>
  /\ resolvedIds' = <<>>
  /\ calls' = SelectSeq(calls, LAMBDA x :
                ~(x.api = "drive.files.delete" /\ x.status = "pending"))
  /\ UNCHANGED <<promises, chatVars>>

\* reset()
reset ==
  /\ filesToDelete' = <<>>
  /\ resolvedIds' = <<>>
  /\ UNCHANGED <<promises, calls, chatVars>>

\* Faulty variant of deleteFileOnCleanup: unshift instead of push.
deleteFileOnCleanupUnshift(list, id) == <<id>> \o list

\* deleteFileOnCleanup(id): this.filesToDelete.push(id)
deleteFileOnCleanup(list, id) == Append(list, id)

\* Faulty variant of cleanupCalls: the last identifier gets no delete.
cleanupCallsButLast(p, files) ==
  [i \in 1..(Len(files) - 1) |->
     [op |-> p, api |-> "drive.files.delete",
      request |-> [fileId |-> files[i]],
      status |-> "pending", reply |-> undefined]]

\* this.filesToDelete.map((fileId) => this.driveService.files.delete({fileId}))
cleanupCalls(p, files) ==
  [i \in 1..Len(files) |->
     RemoteCall(p, "drive.files.delete", [fileId |-> files[i]])]

\* Faulty variant of PromiseAll: a promise that is resolved without waiting.
PromiseAllNoWait(arr) ==
  [method |-> "cleanup", args |-> <<>>, state |-> "resolved", value |-> <<>>]

\* Promise.all(arr) at construction: an empty array resolves at once.
PromiseAll(arr) ==
  IF Len(arr) = 0
  THEN [NewPromise("cleanup", <<>>) EXCEPT !.state = "resolved", !.value = <<>>]
  ELSE NewPromise("cleanup", <<>>)

\* Faulty variant of PromiseAllSettled: settles with the first promise to
\* settle, like Promise.race.
PromiseAllSettledRace(p, cs, c) ==
  IF cs[c].status = "err" THEN reject(p, cs[c].reply)
  ELSE resolve(p, <<cs[c].reply>>)

\* Promise.all when one of its promises settles: cs are the calls after the
\* settlement, c the call that settled, p the promise Promise.all returned.
PromiseAllSettled(p, cs, c) ==
  LET mine == SelectSeq(cs, LAMBDA x : x.op = p) IN
  IF cs[c].status = "err" THEN reject(p, cs[c].reply)
  ELSE IF \A i \in DOMAIN mine : mine[i].status = "ok"
       THEN resolve(p, [i \in DOMAIN mine |-> mine[i].reply])
       ELSE promises

\* Faulty variant of cleanup: it empties the list after issuing the deletes.
cleanupDraining ==
  /\ Len(promises) < MaxOps
  /\ LET arr == cleanupCalls(Len(promises) + 1, filesToDelete) IN
       /\ calls' = calls \o arr
       /\ promises' = Append(promises, PromiseAll(arr))
  /\ filesToDelete' = <<>>
  /\ UNCHANGED <<resolvedIds, chatVars>>

\* cleanup()
cleanup ==
  /\ Len(promises) < MaxOps
  /\ LET arr == cleanupCalls(Len(promises) + 1, filesToDelete) IN
       /\ calls' = calls \o arr
       /\ promises' = Append(promises, PromiseAll(arr))
  /\ UNCHANGED <<filesToDelete, resolvedIds, chatVars>>

\* A Drive delete call of some cleanup() settles.
filesDeleteSettled ==
  \E c \in Pending("drive.files.delete") :
    /\ \/ \E err \in Errors : calls' = Answer(c, "err", err)
       \/ calls' = Answer(c, "ok", [data |-> ""])
    /\ promises' = PromiseAllSettled(calls[c].op, calls', c)
    /\ UNCHANGED <<filesToDelete, resolvedIds, chatVars>>

----------------------------------------------------------------------------
\* Helpers: createTestPresentation.

createTestPresentation ==
  /\ Invoke("createTestPresentation", <<>>,
            "slides.presentations.create", [title |-> "Test Preso"])
  /\ UNCHANGED <<filesToDelete, resolvedIds, chatVars>>

\* (err, presentation) => {...}
createTestPresentationCallback ==
  \E c \in Pending("slides.presentations.create") :
    \/ \E err \in Errors :
         /\ calls' = Answer(c, "err", err)
         /\ promises' = reject(calls[c].op, err)
         /\ UNCHANGED <<filesToDelete, resolvedIds, chatVars>>
    \/ \E id \in FileIds :
         LET presentation == [data |-> [presentationId |-> id]] IN
           /\ calls' = Answer(c, "ok", presentation)
           /\ filesToDelete' =
                deleteFileOnCleanup(filesToDelete,
                                    presentation.data.presentationId)
           /\ promises' = resolve(calls[c].op, presentation.data.presentationId)
           /\ resolvedIds' = Append(resolvedIds, promises'[calls[c].op].value)
           /\ UNCHANGED chatVars

----------------------------------------------------------------------------
\* Helpers: addSlides.

\* Faulty variant of slideIdsLoop: the ids are numbered from 1.
RECURSIVE slideIdsLoopFromOne(_, _, _)
slideIdsLoopFromOne(i, num, slideIds) ==
  IF i < num
  THEN slideIdsLoopFromOne(i + 1, num,
                           Append(slideIds, "slide_" \o ToString(i + 1)))
  ELSE slideIds

\* The loop of addSlides: slideIds after the iterations i = 0 .. num-1.
RECURSIVE slideIdsLoop(_, _, _)
slideIdsLoop(i, num, slideIds) ==
  IF i < num
  THEN slideIdsLoop(i + 1, num, Append(slideIds, "slide_" \o ToString(i)))
  ELSE slideIds

\* The loop of addSlides: requests after the iterations i = 0 .. num-1;
\* iteration i reads slideIds[i] (0-based), the id it has just pushed.
RECURSIVE requestsLoop(_, _, _, _, _)
requestsLoop(i, num, predefinedLayout, slideIds, requests) ==
  IF i < num
  THEN requestsLoop(i + 1, num, predefinedLayout, slideIds,
         Append(requests,
           [createSlide |->
              [objectId |-> slideIds[i + 1],
               slideLayoutReference |->
                 [predefinedLayout |-> predefinedLayout]]]))
  ELSE requests

addSlides ==
  \E presentationId \in ArgIds, num \in 0..MaxNum, predefinedLayout \in Layouts :
    LET slideIds == slideIdsLoop(0, num, <<>>)
        requests == requestsLoop(0, num, predefinedLayout, slideIds, <<>>)
    IN /\ Invoke("addSlides", <<presentationId, num, predefinedLayout>>,
                 "slides.presentations.batchUpdate",
                 [presentationId |-> presentationId,
                  resource |-> [requests |-> requests]])
       /\ UNCHANGED <<filesToDelete, resolvedIds, chatVars>>

\* The calls that belong to promises of one method.
PendingOf(method) ==
  {c \in DOMAIN calls :
     calls[c].status = "pending" /\ promises[calls[c].op].method = method}

\* (err, response) => {...}; slideIds is the closure's list.
addSlidesCallback ==
  \E c \in PendingOf("addSlides") :
    /\ \/ \E err \in Errors :
            /\ calls' = Answer(c, "err", err)
            /\ promises' = reject(calls[c].op, err)
       \/ /\ calls' = Answer(c, "ok", [data |-> [replies |-> <<>>]])
          /\ promises' =
               resolve(calls[c].op,
                       slideIdsLoop(0, promises[calls[c].op].args[2], <<>>))
    /\ UNCHANGED <<filesToDelete, resolvedIds, chatVars>>

----------------------------------------------------------------------------
\* Helpers: createTestTextbox and createTestSheetsChart.

boxId == "MyTextBox_01"
chartId == "MyChart_01"

createTestTextbox ==
  \E presentationId \in ArgIds, pageObjectId \in PageIds :
    LET pt350 == [magnitude |-> 350, unit |-> "PT"]
        requests ==
          << [createShape |->
                [objectId |-> boxId,
                 shapeType |-> "TEXT_BOX",
                 elementProperties |->
                   [pageObjectId |-> pageObjectId,
                    size |-> [height |-> pt350, width |-> pt350],
                    transform |->
                      [scaleX |-> 1, scaleY |-> 1, translateX |-> 350,
                       translateY |-> 100, unit |-> "PT"]]]],
             [insertText |->
                [objectId |-> boxId, insertionIndex |-> 0,
                 text |-> "New Box Text Inserted"]] >>
    IN /\ Invoke("createTestTextbox", <<presentationId, pageObjectId>>,
                 "slides.presentations.batchUpdate",
                 [presentationId |-> presentationId,
                  resource |-> [requests |-> requests]])
       /\ UNCHANGED <<filesToDelete, resolvedIds, chatVars>>

\* (err, createTextboxResponse) => {...}; the service replies with the id
\* of the shape it created.
createTestTextboxCallback ==
  \E c \in PendingOf("createTestTextbox") :
    /\ \/ \E err \in Errors :
            /\ calls' = Answer(c, "err", err)
            /\ promises' = reject(calls[c].op, err)
       \/ LET createTextboxResponse ==
                [data |-> [replies |->
                   <<[createShape |->
                        [objectId |->
                           calls[c].request.resource.requests[1]
                             .createShape.objectId]]>>]]
          IN /\ calls' = Answer(c, "ok", createTextboxResponse)
             /\ promises' =
                  resolve(calls[c].op,
                          createTextboxResponse.data.replies[1]
                            .createShape.objectId)
    /\ UNCHANGED <<filesToDelete, resolvedIds, chatVars>>

createTestSheetsChart ==
  \E presentationId \in ArgIds, pageId \in PageIds,
     spreadsheetId \in ArgIds, sheetChartId \in ChartIds :
    LET emu4M == [magnitude |-> 4000000, unit |-> "EMU"]
        requests ==
          << [createSheetsChart |->
                [objectId |-> chartId,
                 spreadsheetId |-> spreadsheetId,
                 chartId |-> sheetChartId,
                 linkingMode |-> "LINKED",
                 elementProperties |->
                   [pageObjectId |-> pageId,
                    size |-> [height |-> emu4M, width |-> emu4M],
                    transform |->
                      [scaleX |-> 1, scaleY |-> 1, translateX |-> 100000,
                       translateY |-> 100000, unit |-> "EMU"]]]] >>
    IN /\ Invoke("createTestSheetsChart",
                 <<presentationId, pageId, spreadsheetId, sheetChartId>>,
                 "slides.presentations.batchUpdate",
                 [presentationId |-> presentationId,
                  resource |-> [requests |-> requests]])
       /\ UNCHANGED <<filesToDelete, resolvedIds, chatVars>>

\* (err, createSheetsChartResponse) => {...}
createTestSheetsChartCallback ==
  \E c \in PendingOf("createTestSheetsChart") :
    /\ \/ \E err \in Errors :
            /\ calls' = Answer(c, "err", err)
            /\ promises' = reject(calls[c].op, err)
       \/ LET createSheetsChartResponse ==
                [data |-> [replies |->
                   <<[createSheetsChart |->
                        [objectId |->
                           calls[c].request.resource.requests[1]
                             .createSheetsChart.objectId]]>>]]
          IN /\ calls' = Answer(c, "ok", createSheetsChartResponse)
             /\ promises' =
                  resolve(calls[c].op,
                          createSheetsChartResponse.data.replies[1]
                            .createSheetsChart.objectId)
    /\ UNCHANGED <<filesToDelete, resolvedIds, chatVars>>

----------------------------------------------------------------------------
\* Helpers: createTestSpreadsheet and populateValues.

createTestSpreadsheet ==
  /\ Invoke("createTestSpreadsheet", <<>>, "sheets.spreadsheets.create",
            [resource |-> [properties |-> [title |-> "Test Spreadsheet"]],
             fields |-> "spreadsheetId"])
  /\ UNCHANGED <<filesToDelete, resolvedIds, chatVars>>

\* The denodeified call settles; on success .then((spreadsheet) => {...}) runs.
createTestSpreadsheetThen ==
  \E c \in Pending("sheets.spreadsheets.create") :
    \/ \E err \in Errors :
         /\ calls' = Answer(c, "err", err)
         /\ promises' = reject(calls[c].op, err)
         /\ UNCHANGED <<filesToDelete, resolvedIds, chatVars>>
    \/ \E id \in FileIds :
         LET spreadsheet == [data |-> [spreadsheetId |-> id]] IN
           /\ calls' = Answer(c, "ok", spreadsheet)
           /\ filesToDelete' =
                deleteFileOnCleanup(filesToDelete,
                                    spreadsheet.data.spreadsheetId)
           /\ promises' = resolve(calls[c].op, spreadsheet.data.spreadsheetId)
           /\ resolvedIds' = Append(resolvedIds, promises'[calls[c].op].value)
           /\ UNCHANGED chatVars

\* The range of populateValues' repeatCell request.
startRowIndex == 0
endRowIndex == 15
startColumnIndex == 0
endColumnIndex == 15

populateValues ==
  \E spreadsheetId \in ArgIds :
    /\ Invoke("populateValues", <<spreadsheetId>>,
              "sheets.spreadsheets.batchUpdate",
              [spreadsheetId |-> spreadsheetId,
               resource |-> [requests |->
                 << [repeatCell |->
                       [range |->
                          [sheetId |-> 0,
                           startRowIndex |-> startRowIndex,
                           endRowIndex |-> endRowIndex,
                           startColumnIndex |-> startColumnIndex,
                           endColumnIndex |-> endColumnIndex],
                        cell |-> [userEnteredValue |->
                                    [stringValue |-> "Hello"]],
                        fields |-> "userEnteredValue"]] >>]])
    /\ UNCHANGED <<filesToDelete, resolvedIds, chatVars>>

\* The denodeified call settles; on success .then(() => spreadsheetId) runs.
populateValuesThen ==
  \E c \in Pending("sheets.spreadsheets.batchUpdate") :
    /\ \/ \E err \in Errors :
            /\ calls' = Answer(c, "err", err)
            /\ promises' = reject(calls[c].op, err)
       \/ /\ calls' = Answer(c, "ok", [data |-> [replies |-> <<>>]])
          /\ promises' = resolve(calls[c].op, promises[calls[c].op].args[1])
    /\ UNCHANGED <<filesToDelete, resolvedIds, chatVars>>

----------------------------------------------------------------------------
\* The chat sample: main() and main().catch(console.error), once per run.

Runs == 1..MaxRuns

USER_AUTH_OAUTH_SCOPES == <<"https://www.googleapis.com/auth/chat.memberships">>

request ==
  [membership |-> [name |-> "spaces/SPACE_NAME/members/MEMBER_NAME",
                   role |-> "ROLE_NAME"],
   updateMask |-> [paths |-> <<"role">>]]

ChatCall(api, req) ==
  [api |-> api, request |-> req, status |-> "pending", reply |-> undefined]

\* The awaited call of run r, the last one it made, settles.
ChatAnswer(r, status, reply) ==
  [chatCalls[r] EXCEPT ![Len(chatCalls[r])].status = status,
                       ![Len(chatCalls[r])].reply = reply]

\* main() runs up to its first await.
main(r) ==
  /\ chatPc[r] = "start"
  /\ chatCalls' =
       [chatCalls EXCEPT ![r] =
          Append(@, ChatCall("createClientWithUserCredentials",
                             USER_AUTH_OAUTH_SCOPES))]
  /\ chatPc' = [chatPc EXCEPT ![r] = "awaitClient"]
  /\ UNCHANGED <<consoleLog, consoleError, helperVars>>

\* Faulty variant of mainClientSettled: the error is logged where it occurs
\* and main() goes on to its second await.
mainClientSettledSwallow(r) ==
  /\ chatPc[r] = "awaitClient"
  /\ \/ \E err \in Errors :
          /\ chatCalls' =
               [chatCalls EXCEPT ![r] =
                  Append(ChatAnswer(r, "err", err),
                         ChatCall("updateMembership", request))]
          /\ consoleError' = [consoleError EXCEPT ![r] = Append(@, err)]
     \/ /\ chatCalls' =
             [chatCalls EXCEPT ![r] =
                Append(ChatAnswer(r, "ok", "chatClient"),
                       ChatCall("updateMembership", request))]
        /\ UNCHANGED consoleError
  /\ chatPc' = [chatPc EXCEPT ![r] = "awaitUpdate"]
  /\ UNCHANGED <<consoleLog, helperVars>>

\* The first await settles: on an error main() throws and the catch handler
\* logs it; otherwise main() builds the request and runs up to its second
\* await.
mainClientSettled(r) ==
  /\ chatPc[r] = "awaitClient"
  /\ \/ \E err \in Errors :
          /\ chatCalls' = [chatCalls EXCEPT ![r] = ChatAnswer(r, "err", err)]
          /\ consoleError' = [consoleError EXCEPT ![r] = Append(@, err)]
          /\ chatPc' = [chatPc EXCEPT ![r] = "done"]
     \/ /\ chatCalls' =
             [chatCalls EXCEPT ![r] =
                Append(ChatAnswer(r, "ok", "chatClient"),
                       ChatCall("updateMembership", request))]
        /\ chatPc' = [chatPc EXCEPT ![r] = "awaitUpdate"]
        /\ UNCHANGED consoleError
  /\ UNCHANGED <<consoleLog, helperVars>>

\* The second await settles: console.log(response), or the catch handler.
mainUpdateSettled(r) ==
  /\ chatPc[r] = "awaitUpdate"
  /\ \/ \E err \in Errors :
          /\ chatCalls' = [chatCalls EXCEPT ![r] = ChatAnswer(r, "err", err)]
          /\ consoleError' = [consoleError EXCEPT ![r] = Append(@, err)]
          /\ UNCHANGED consoleLog
     \/ \E response \in Responses :
          /\ chatCalls' = [chatCalls EXCEPT ![r] = ChatAnswer(r, "ok", response)]
          /\ consoleLog' = [consoleLog EXCEPT ![r] = Append(@, response)]
          /\ UNCHANGED consoleError
  /\ chatPc' = [chatPc EXCEPT ![r] = "done"]
  /\ UNCHANGED helperVars

----------------------------------------------------------------------------
Init ==
  /\ filesToDelete = <<>>
  /\ promises = <<>>
  /\ calls = <<>>
  /\ resolvedIds = <<>>
  /\ chatPc = [r \in Runs |-> "start"]
  /\ chatCalls = [r \in Runs |-> <<>>]
  /\ consoleLog = [r \in Runs |-> <<>>]
  /\ consoleError = [r \in Runs |-> <<>>]

\* Every Helpers method, called in any order and without waiting.
Next ==
  \/ reset
  \/ cleanup
  \/ filesDeleteSettled
  \/ createTestPresentation
  \/ createTestPresentationCallback
  \/ addSlides
  \/ addSlidesCallback
  \/ createTestTextbox
  \/ createTestTextboxCallback
  \/ createTestSheetsChart
  \/ createTestSheetsChartCallback
  \/ createTestSpreadsheet
  \/ createTestSpreadsheetThen
  \/ populateValues
  \/ populateValuesThen

Spec == Init /\ [][Next]_vars

\* The methods that read or write the identifier list, alone.
NextList ==
  \/ reset
  \/ cleanup
  \/ filesDeleteSettled
  \/ createTestPresentation
  \/ createTestPresentationCallback
  \/ createTestSpreadsheet
  \/ createTestSpreadsheetThen

SpecList == Init /\ [][NextList]_vars

\* addSlides alone, over every num and layout.
NextSlides ==
  \/ addSlides
  \/ addSlidesCallback

SpecSlides == Init /\ [][NextSlides]_vars

\* The runs of the chat sample.
NextChat ==
  \E r \in Runs :
    \/ main(r)
    \/ mainClientSettled(r)
    \/ mainUpdateSettled(r)

SpecChat == Init /\ [][NextChat]_vars

----------------------------------------------------------------------------
\* Reading the state.

Range(f) == {f[i] : i \in DOMAIN f}

Cleanups == {p \in DOMAIN promises : promises[p].method = "cleanup"}

Creations ==
  {p \in DOMAIN promises :
     promises[p].method \in {"createTestPresentation", "createTestSpreadsheet"}}

SingleCallMethods ==
  {"createTestPresentation", "addSlides", "createTestTextbox",
   "createTestSheetsChart", "createTestSpreadsheet", "populateValues"}

\* The remote calls issued on behalf of promise p, in issue order.
CallsOf(p) == SelectSeq(calls, LAMBDA x : x.op = p)

\* The fileIds of the delete calls of cleanup promise p, in issue order.
DeletedIds(p) == [i \in DOMAIN CallsOf(p) |-> CallsOf(p)[i].request.fileId]

Settled(p) == promises[p].state # "pending"

----------------------------------------------------------------------------
\* C1, as stated: whenever the promise of a cleanup() has settled, every
\* delete call that cleanup issued has settled.
C1_SettlesAfterAllDeletes ==
  \A p \in Cleanups :
    Settled(p) => \A i \in DOMAIN CallsOf(p) : CallsOf(p)[i].status # "pending"

\* C1, amended: the promise of a cleanup() is resolved exactly when every
\* delete call it issued has succeeded, and it is rejected, with the error of
\* a failed delete, exactly when one of them has failed, whether or not the
\* others have settled.
C1_ResolvesAfterAllRejectsAtFirstFailure ==
  \A p \in Cleanups :
    LET cs == CallsOf(p)
        failed == {i \in DOMAIN cs : cs[i].status = "err"}
    IN /\ promises[p].state = "resolved" <=>
            \A i \in DOMAIN cs : cs[i].status = "ok"
       /\ promises[p].state = "rejected" <=> failed # {}
       /\ promises[p].state = "rejected" =>
            promises[p].value \in {cs[i].reply : i \in failed}
       /\ Cardinality(failed) = 1 /\ promises[p].state = "rejected" =>
            \A i \in failed : promises[p].value = cs[i].reply

\* A cleanup() has rejected while another of its deletes is still in flight.
C1_Witness ==
  \E p \in Cleanups :
    /\ promises[p].state = "rejected"
    /\ \E i \in DOMAIN CallsOf(p) : CallsOf(p)[i].status = "pending"

----------------------------------------------------------------------------
\* C2: a step that calls cleanup() issues, in that one step and all still
\* pending, exactly one files.delete call per entry of filesToDelete, in list
\* order and for that entry's id; no other step issues a files.delete call.
C2_OneDeletePerTrackedId ==
  [][LET issued == SubSeq(calls', Len(calls) + 1, Len(calls'))
         called == {p \in DOMAIN promises' \ DOMAIN promises :
                      promises'[p].method = "cleanup"}
     IN /\ \A p \in called :
             /\ Len(issued) = Len(filesToDelete)
             /\ \A i \in DOMAIN issued :
                  /\ issued[i].op = p
                  /\ issued[i].api = "drive.files.delete"
                  /\ issued[i].request = [fileId |-> filesToDelete[i]]
                  /\ issued[i].status = "pending"
        /\ (\E i \in DOMAIN issued : issued[i].api = "drive.files.delete")
             => called # {}
    ]_vars

\* One cleanup() issued deletes for two different ids; one of them failed and
\* the other one was issued all the same and succeeded.
C2_Witness ==
  \E p \in Cleanups :
    \E i, j \in DOMAIN CallsOf(p) :
      /\ CallsOf(p)[i].request.fileId # CallsOf(p)[j].request.fileId
      /\ CallsOf(p)[i].status = "err"
      /\ CallsOf(p)[j].status = "ok"

----------------------------------------------------------------------------
\* C3, as stated: after a cleanup() has completed, filesToDelete holds none
\* of the ids it issued a delete for.
C3_ListConsumedByCleanup ==
  \A p \in Cleanups :
    promises[p].state = "resolved" =>
      \A i \in DOMAIN DeletedIds(p) : DeletedIds(p)[i] \notin Range(filesToDelete)

\* C3, amended: cleanup() does not consume the list. A step that calls
\* cleanup(), and a step in which one of its delete calls settles, leave
\* filesToDelete as it was; only reset() empties it.
C3_CleanupLeavesList ==
  [][LET cleanupCalled ==
           \E p \in DOMAIN promises' \ DOMAIN promises :
             promises'[p].method = "cleanup"
         deleteSettled ==
           \E c \in DOMAIN calls :
             /\ calls[c].api = "drive.files.delete"
             /\ c \in DOMAIN calls' /\ calls'[c] # calls[c]
     IN cleanupCalled \/ deleteSettled => filesToDelete' = filesToDelete
    ]_vars

\* A first cleanup() has completed and a second one, called with no creation
\* and no reset in between, has issued the same deletes again.
C3_Witness ==
  \E p, q \in Cleanups :
    /\ p < q
    /\ promises[p].state = "resolved"
    /\ DeletedIds(p) # <<>>
    /\ DeletedIds(q) = DeletedIds(p)
    /\ filesToDelete = DeletedIds(p)
    /\ \A c \in Creations : c < p

----------------------------------------------------------------------------
----------------------------------------------------------------------------
\* C5: each of the six single-call methods has issued exactly one remote
\* call; its promise is rejected exactly when that call failed, and then with
\* the call's error; once settled the promise never changes and no further
\* call is issued for it.
C5_SingleCallErrorPassedOn ==
  /\ [](\A p \in DOMAIN promises :
          promises[p].method \in SingleCallMethods =>
            LET cs == CallsOf(p) IN
              /\ Len(cs) = 1
              /\ cs[1].status = "err" <=> promises[p].state = "rejected"
              /\ cs[1].status = "err" => promises[p].value = cs[1].reply
              /\ cs[1].status = "pending" <=> promises[p].state = "pending")
  /\ [][\A p \in DOMAIN promises :
          /\ p \in DOMAIN promises'
          /\ Settled(p) => promises'[p] = promises[p]
          /\ promises[p].method \in SingleCallMethods =>
               Len(CallsOf(p)') = Len(CallsOf(p))
       ]_vars

\* Two operations of different methods were in flight together and failed
\* with different errors, each promise rejecting with its own call's error.
C5_Witness ==
  \E p, q \in DOMAIN promises :
    /\ promises[p].method = "addSlides"
    /\ promises[q].method = "createTestSpreadsheet"
    /\ promises[p].state = "rejected"
    /\ promises[q].state = "rejected"
    /\ promises[p].value # promises[q].value

----------------------------------------------------------------------------
\* C6, as stated: in a step that changes filesToDelete (an append or a
\* reset), no remote call is in flight before and after the step.
C6_NoMutationWhileInFlight ==
  [][filesToDelete' # filesToDelete =>
       \A c \in DOMAIN calls :
         ~(calls[c].status = "pending" /\ calls'[c].status = "pending")
    ]_vars

\* C6, amended: the helper does not keep its operations apart. When a step
\* changes filesToDelete and every promise returned before it is settled
\* after it (the caller awaits each operation), the only remote calls still
\* in flight are delete calls of a cleanup() that has already rejected.
C6_AwaitedCallsLeaveOnlyRejectedDeletes ==
  [][(/\ filesToDelete' # filesToDelete
      /\ \A p \in DOMAIN promises : promises'[p].state # "pending")
       =>
       \A c \in DOMAIN calls :
         calls[c].status = "pending" /\ calls'[c].status = "pending" =>
           /\ calls[c].api = "drive.files.delete"
           /\ promises[calls[c].op].state = "rejected"
    ]_vars

\* Every promise has settled, a cleanup() among them has rejected with one
\* of its deletes still in flight, and a reset() after it has emptied the
\* list.
C6_Witness ==
  /\ \A p \in DOMAIN promises : Settled(p)
  /\ filesToDelete = <<>>
  /\ \E p \in Cleanups :
       /\ promises[p].state = "rejected"
       /\ \E i \in DOMAIN CallsOf(p) : CallsOf(p)[i].status = "pending"

----------------------------------------------------------------------------
\* C7: in every run of the chat sample, createClientWithUserCredentials is
\* the first call and updateMembership is called at most once, as the second
\* call and only after the first succeeded; a response is logged only once
\* updateMembership succeeded, and it is that response; when a call fails
\* its error is the one thing logged to console.error, nothing is logged to
\* console.log, no further call is made and the run is over.
C7_SequentialChain ==
  \A r \in Runs :
    LET cs == chatCalls[r]
        updates == {i \in DOMAIN cs : cs[i].api = "updateMembership"}
        failed == {i \in DOMAIN cs : cs[i].status = "err"}
    IN /\ Len(cs) <= 2
       /\ Len(cs) >= 1 => cs[1].api = "createClientWithUserCredentials"
       /\ updates \subseteq {2}
       /\ updates # {} => cs[1].status = "ok"
       /\ consoleLog[r] # <<>> =>
            /\ updates # {}
            /\ cs[2].status = "ok"
            /\ consoleLog[r] = <<cs[2].reply>>
       /\ updates # {} /\ cs[Len(cs)].status = "ok" =>
            consoleLog[r] = <<cs[2].reply>>
       /\ \A i \in failed :
            /\ i = Len(cs)
            /\ consoleError[r] = <<cs[i].reply>>
            /\ consoleLog[r] = <<>>
            /\ chatPc[r] = "done"
       /\ failed = {} => consoleError[r] = <<>>

\* One run failed at client creation, one failed at updateMembership and one
\* logged its response.
C7_Witness ==
  \E a, b, c \in Runs :
    /\ Len(chatCalls[a]) = 1 /\ consoleError[a] # <<>>
    /\ Len(chatCalls[b]) = 2 /\ consoleError[b] # <<>>
    /\ consoleLog[c] # <<>>

----------------------------------------------------------------------------
\* C8: every request of populateValues carries a single repeatCell over
\* sheet 0 whose range starts at row 0, column 0 and spans 11 rows and 11
\* columns.
C8_ElevenByElevenGrid ==
  \A c \in DOMAIN calls :
    promises[calls[c].op].method = "populateValues" =>
      LET requests == calls[c].request.resource.requests
          range == requests[1].repeatCell.range
      IN /\ Len(requests) = 1
         /\ range.sheetId = 0
         /\ range.startRowIndex = 0
         /\ range.startColumnIndex = 0
         /\ range.endRowIndex - range.startRowIndex = 11
         /\ range.endColumnIndex - range.startColumnIndex = 11

----------------------------------------------------------------------------
\* C9: every addSlides(presentationId, num, layout) has issued exactly one
\* batchUpdate, for presentationId, with num createSlide requests whose
\* objectIds are slide_0 .. slide_{num-1} in order, pairwise distinct, each
\* with the given layout; the promise is resolved only once the call
\* succeeded, and then with exactly these ids in order.
C9_AddSlidesRequestsAndIds ==
  \A p \in DOMAIN promises :
    promises[p].method = "addSlides" =>
      LET presentationId == promises[p].args[1]
          num == promises[p].args[2]
          predefinedLayout == promises[p].args[3]
          cs == CallsOf(p)
          requests == cs[1].request.resource.requests
      IN /\ Len(cs) = 1
         /\ cs[1].api = "slides.presentations.batchUpdate"
         /\ cs[1].request.presentationId = presentationId
         /\ Len(requests) = num
         /\ \A i \in 1..num :
              requests[i] =
                [createSlide |->
                   [objectId |-> "slide_" \o ToString(i - 1),
                    slideLayoutReference |->
                      [predefinedLayout |-> predefinedLayout]]]
         /\ \A i, j \in 1..num :
              i # j =>
                requests[i].createSlide.objectId # requests[j].createSlide.objectId
         /\ promises[p].state = "resolved" <=> cs[1].status = "ok"
         /\ promises[p].state = "resolved" =>
              promises[p].value =
                [i \in 1..num |-> requests[i].createSlide.objectId]

\* An addSlides for two slides and one for no slide have both resolved, with
\* different layouts.
C9_Witness ==
  \E p, q \in DOMAIN promises :
    /\ promises[p].method = "addSlides" /\ promises[q].method = "addSlides"
    /\ promises[p].args[2] = 2 /\ promises[q].args[2] = 0
    /\ promises[p].args[3] # promises[q].args[3]
    /\ promises[p].state = "resolved" /\ promises[q].state = "resolved"
    /\ promises[q].value = <<>>

----------------------------------------------------------------------------
\* C10: the delete calls of a cleanup() are those issued when it was called:
\* no later step (an append by a creation completing afterwards, a reset(),
\* another cleanup()) adds, removes or redirects a delete call of it; a
\* delete call changes only by settling.
C10_CleanupDeletesSnapshot ==
  [][\A p \in Cleanups :
       /\ DeletedIds(p)' = DeletedIds(p)
       /\ \A i \in DOMAIN CallsOf(p) :
            \/ CallsOf(p)'[i] = CallsOf(p)[i]
            \/ /\ CallsOf(p)[i].status = "pending"
               /\ CallsOf(p)'[i].status \in {"ok", "err"}
    ]_vars

\* While a delete of a cleanup() is in flight, a creation that completed
\* after the call has appended an id that this cleanup issued no delete for.
C10_Witness ==
  \E p \in Cleanups :
    /\ \E i \in DOMAIN CallsOf(p) : CallsOf(p)[i].status = "pending"
    /\ Len(filesToDelete) = Len(DeletedIds(p)) + 1
    /\ SubSeq(filesToDelete, 1, Len(DeletedIds(p))) = DeletedIds(p)
    /\ filesToDelete[Len(filesToDelete)] \notin Range(DeletedIds(p))
====
